---- MODULE Spec2Model ----
(***************************************************************************)
(* The openclaw-bridge client (src/unnamed/part_000): one process, one     *)
(* WebSocket, one event loop.  Every action below is one macrotask of the  *)
(* event loop (an inbound frame, a socket event, a timer, a signal)        *)
(* together with all promise continuations (microtasks) it triggers.       *)
(***************************************************************************)
EXTENDS Integers, Sequences, FiniteSets, TLC

\* How many connect.challenge events the gateway may send in one run.
MaxChallenges == 2

\* How many key pairs generateKeyPairSync makes over the runs considered.
MaxKeys == 3

None == "none"

\* ---------------------------------------------------------------- constants
EXIT == [OK |-> 0, CONN |-> 1, AUTH |-> 2, OP |-> 3, TIMEOUT |-> 4, USAGE |-> 5]
NotExited == -1

ROLE == "operator"
OtherRole == "node"
Roles == {ROLE, OtherRole}
SCOPES == "operator.*"
TOKEN == "gateway-token"
DeviceId == "devA"
OtherDeviceId == "devB"

\* the commands of COMMANDS, by the request buildRequest() / runSend() issues
Commands == {"status", "send"}
buildRequest(cmd) == IF cmd = "status" THEN "status" ELSE None

\* ------------------------------------------------------------ token cache
\* DEVICE_AUTH_FILE: absent, unparseable, or a JSON record
NoEntry == [token |-> None, scopes |-> None]
NoTokens == [r \in Roles |-> NoEntry]
NoFile == [kind |-> "absent", version |-> 0, deviceId |-> None, tokens |-> NoTokens]
CorruptFile == [kind |-> "corrupt", version |-> 0, deviceId |-> None, tokens |-> NoTokens]
Record(v, d, toks) == [kind |-> "record", version |-> v, deviceId |-> d, tokens |-> toks]

\* loadStoredDeviceToken without its test of data.deviceId
loadStoredDeviceToken_anyOwner(f, deviceId, role) ==
    IF f.kind = "absent" THEN None
    ELSE IF f.kind = "corrupt" THEN None
    ELSE IF f.version # 1 THEN None
    ELSE f.tokens[role].token

loadStoredDeviceToken(f, deviceId, role) ==
    IF f.kind = "absent" THEN None
    ELSE IF f.kind = "corrupt" THEN None
    ELSE IF f.version # 1 \/ f.deviceId # deviceId THEN None
    ELSE f.tokens[role].token

\* storeDeviceToken starting from an empty tokens object every time
storeDeviceToken_freshRecord(f, deviceId, role, token, scopes) ==
    Record(1, deviceId, [NoTokens EXCEPT ![role] = [token |-> token, scopes |-> scopes]])

\* storeDeviceToken without its test of d.deviceId
storeDeviceToken_keepsForeignEntries(f, deviceId, role, token, scopes) ==
    LET existing == f.kind = "record" /\ f.version = 1
        tokens == IF existing THEN f.tokens ELSE NoTokens
    IN Record(1, deviceId, [tokens EXCEPT ![role] = [token |-> token, scopes |-> scopes]])

storeDeviceToken(f, deviceId, role, token, scopes) ==
    LET existing == f.kind = "record" /\ f.version = 1 /\ f.deviceId = deviceId
        tokens == IF existing THEN f.tokens ELSE NoTokens
    IN Record(1, deviceId, [tokens EXCEPT ![role] = [token |-> token, scopes |-> scopes]])

unlinkSync(f) == NoFile

\* the cache files a run may find at start
InitFiles ==
    { NoFile,
      Record(1, DeviceId, [NoTokens EXCEPT ![ROLE] = [token |-> "tok-old", scopes |-> SCOPES],
                                           ![OtherRole] = [token |-> "tok-node", scopes |-> SCOPES]]),
      Record(1, DeviceId, [NoTokens EXCEPT ![OtherRole] = [token |-> "tok-node", scopes |-> SCOPES]]) }

\* ------------------------------------------------------------------ values
\* every value a promise settles with or the process prints has one shape
Val(kind, text, tok, scopes, run, method) ==
    [kind |-> kind, text |-> text, tok |-> tok, scopes |-> scopes, run |-> run, method |-> method]
Payload(tag, tok, scopes, run) == Val("payload", tag, tok, scopes, run, None)
\* new Error(message)
Error(text, method) == Val("error", text, None, None, None, method)
\* { runId, status }
WaitResult(run, status) == Val("result", status, None, None, run, None)

RunIds == {"r1", "r2"}
Payloads ==
    { Payload("p1", None, None, None),
      Payload("p2", "tok-new", None, "r1"),
      Payload("p3", None, None, "r2") }
\* msg.error; None is a response without error detail
ErrDetails == {"device_token_mismatch", "unauthorized", None}

\* JSON.stringify(msg.error || "Unknown error")
ErrorMessage(detail) == IF detail = None THEN "Unknown error" ELSE detail
\* the test of the catch branch taking every error for a stale token
IsStaleMessage_anyError(e) == e.kind = "error"

\* e.message?.includes("device_token_mismatch") || e.message?.includes("unauthorized")
IsStaleMessage(e) ==
    e.kind = "error" /\ e.text \in {"device_token_mismatch", "unauthorized"}

\* ---------------------------------------------------------------- identity
\* IDENTITY_FILE: absent, unparseable, or a JSON object; a field the object
\* lacks is None
IdentityFields == {"deviceId", "publicKeyPem", "privateKeyPem"}
NoIdentityFile ==
    [kind |-> "absent", version |-> 0, deviceId |-> None, publicKeyPem |-> None,
     privateKeyPem |-> None]
CorruptIdentityFile == [NoIdentityFile EXCEPT !.kind = "corrupt"]
\* the k-th key pair generateKeyPairSync makes, and the sha256 of its raw public key
PublicKeyPem(k) == "pub" \o ToString(k)
PrivateKeyPem(k) == "priv" \o ToString(k)
Sha256(k) == "dev" \o ToString(k)
NewIdentity(k) ==
    [kind |-> "record", version |-> 1, deviceId |-> Sha256(k),
     publicKeyPem |-> PublicKeyPem(k), privateKeyPem |-> PrivateKeyPem(k)]
\* the identity of the run whose connection is modelled
RunIdentity ==
    [kind |-> "record", version |-> 1, deviceId |-> DeviceId,
     publicKeyPem |-> "pubA", privateKeyPem |-> "privA"]

\* data?.version === 1 && data.deviceId && data.publicKeyPem && data.privateKeyPem
Intact(f) ==
    /\ f.kind = "record" /\ f.version = 1
    /\ f.deviceId # None /\ f.publicKeyPem # None /\ f.privateKeyPem # None

\* loadOrCreateIdentity always generating a new key pair
loadOrCreateIdentity_alwaysGenerates(f, k) ==
    [identity |-> NewIdentity(k), file |-> NewIdentity(k), generated |-> TRUE]

\* k is the key pair generateKeyPairSync returns if it is called
loadOrCreateIdentity(f, k) ==
    IF Intact(f)
    THEN [identity |-> f, file |-> f, generated |-> FALSE]
    ELSE [identity |-> NewIdentity(k), file |-> NewIdentity(k), generated |-> TRUE]

\* ----------------------------------------------------------------- frames
String(n) == ToString(n)
WaitKey == "send-wait"

ResFrame(id, ok, payload, error) ==
    [type |-> "res", id |-> id, ok |-> ok, payload |-> payload, error |-> error]

\* ------------------------------------------------------------------ state
VARIABLES
    command,              \* cliArgs[0]
    STORED_DEVICE_TOKEN,  \* loaded once at start
    file,                 \* contents of DEVICE_AUTH_FILE
    file0,                \* history: its contents when the process started
    msgId,
    pending,              \* the Map, in insertion order
    timers,               \* armed timers of sendReq and runSend
    connTimer,            \* connTimer is armed
    authenticated,
    sendRunId,
    connectNonce,
    pc,                   \* per ws.onmessage challenge invocation: the await it is suspended at
    wsState,              \* "open" / "closed" (close event delivered)
    closeCalled,          \* ws.close() has been called
    exitCode,             \* process.exit(code); NotExited while running
    sent,                 \* frames handed to ws.send, in order
    stdout,               \* console.log of runCommand
    settled,              \* history: every resolve/reject of a pending entry
    identityFile,         \* contents of IDENTITY_FILE
    IDENTITY,             \* loaded once at start
    keysGenerated         \* history: how many key pairs generateKeyPairSync has made

vars == <<command, STORED_DEVICE_TOKEN, file, file0, msgId, pending, timers, connTimer,
          authenticated, sendRunId, connectNonce, pc, wsState, closeCalled,
          exitCode, sent, stdout, settled, identityFile, IDENTITY, keysGenerated>>

Handlers == 1..MaxChallenges

\* the mutable program state as one value, so that a handler and the
\* continuations it wakes compose; queue is the microtask queue
Cur ==
    [file |-> file, msgId |-> msgId, pending |-> pending, timers |-> timers,
     connTimer |-> connTimer, authenticated |-> authenticated, sendRunId |-> sendRunId,
     connectNonce |-> connectNonce, pc |-> pc, wsState |-> wsState,
     closeCalled |-> closeCalled, exitCode |-> exitCode, sent |-> sent,
     stdout |-> stdout, settled |-> settled, queue |-> <<>>,
     \* whether the file system refuses the writes of this turn of the event loop
     fsFails |-> FALSE]

\* --------------------------------------------------------- connect params
ClientId == "gateway-client"
ClientMode == "backend"

\* buildDeviceAuthPayload with the token ahead of the signed-at value
buildDeviceAuthPayload_tokenBeforeSignedAt(params) ==
    <<"v1", params.deviceId, params.clientId, params.clientMode, params.role, params.scopes,
      IF params.token = None THEN "" ELSE params.token, ToString(params.signedAtMs)>>

\* the fields joined with "|", in order
buildDeviceAuthPayload(params) ==
    <<"v1", params.deviceId, params.clientId, params.clientMode, params.role, params.scopes,
      ToString(params.signedAtMs), IF params.token = None THEN "" ELSE params.token>>

\* a signature binds the key and the text signed
signPayload(privateKeyPem, payload) == [key |-> privateKeyPem, payload |-> payload]

\* connectParams / retryParams
ConnectParams(token, signedAtMs) ==
    [role |-> ROLE, scopes |-> SCOPES,
     device |-> [id |-> IDENTITY.deviceId,
                 publicKey |-> IDENTITY.publicKeyPem,
                 signature |-> signPayload(IDENTITY.privateKeyPem,
                                  buildDeviceAuthPayload(
                                      [deviceId |-> IDENTITY.deviceId, clientId |-> ClientId,
                                       clientMode |-> ClientMode, role |-> ROLE,
                                       scopes |-> SCOPES, signedAtMs |-> signedAtMs,
                                       token |-> token])),
                 signedAt |-> signedAtMs],
     auth |-> [token |-> token]]
\* the params of a business request (no device block, no auth block)
NoParams ==
    [role |-> None, scopes |-> None,
     device |-> [id |-> None, publicKey |-> None,
                 signature |-> [key |-> None, payload |-> <<>>], signedAt |-> 0],
     auth |-> [token |-> None]]
\* Date.now(): the model's clock is the number of frames sent so far
DateNow(s) == Len(s.sent)

\* ------------------------------------------------------------ Map helpers
Keys(p) == {p[i].key : i \in 1..Len(p)}
Has(p, k) == k \in Keys(p)
Get(p, k) == p[CHOOSE i \in 1..Len(p) : p[i].key = k]
Delete(p, k) == SelectSeq(p, LAMBDA e : e.key # k)
\* Map.set: a new key is appended, an existing key keeps its place
Set(p, e) ==
    IF Has(p, e.key) THEN [i \in 1..Len(p) |-> IF p[i].key = e.key THEN e ELSE p[i]]
    ELSE Append(p, e)


\* ------------------------------------------------- promises and microtasks
\* a continuation waiting in the microtask queue: handler h resumes at stage
\* "inner" (the innermost await), "runCommand" (await runSend()) or
\* "main" (await runCommand())
Job(h, stage, ok, value) == [h |-> h, stage |-> stage, ok |-> ok, value |-> value]
Undefined == Val("undefined", None, None, None, None, None)

\* history of one resolve/reject call: which promise (key, owner), how, by which
\* path, the message of the error it was rejected with, the device token of the
\* payload it was resolved with, and the how-manieth settlement of that promise
\* it is
Settlement(s, key, owner, how, value, by) ==
    [key |-> key, owner |-> owner, how |-> how, by |-> by,
     text |-> IF how = "rejected" THEN value.text ELSE None,
     tok |-> IF how = "resolved" THEN value.tok ELSE None,
     nth |-> Cardinality({x \in s.settled : x.key = key /\ x.owner = owner}) + 1]

\* resolve(value) of the promise of handler `owner`: its continuation is queued
Resolve(s, key, owner, value, by) ==
    [s EXCEPT !.settled = @ \cup {Settlement(s, key, owner, "resolved", value, by)},
              !.queue = Append(@, Job(owner, "inner", TRUE, value))]

\* entry.reject(err): the promise's reject, or for the send-wait entry its resolve
Reject(s, entry, err, by) ==
    IF entry.reject = "resolve"
    THEN Resolve(s, entry.key, entry.owner, err, by)
    ELSE [s EXCEPT !.settled = @ \cup {Settlement(s, entry.key, entry.owner, "rejected", err, by)},
                   !.queue = Append(@, Job(entry.owner, "inner", FALSE, err))]

\* ------------------------------------------- request/response correlation
CallTimer(n, h, method) == [kind |-> "call", n |-> n, owner |-> h, method |-> method, run |-> None]
\* run is history: the run id the chat.send of this invocation resolved with
WaitTimer(h, run) == [kind |-> "wait", n |-> 0, owner |-> h, method |-> None, run |-> run]

ReqFrame(s, h, id, method, params) ==
    [type |-> "req", id |-> id, method |-> method, params |-> params,
     token |-> params.auth.token,
     \* history: the invocation that sent it, the flag and the cache at ws.send
     owner |-> h, authenticated |-> s.authenticated, file |-> s.file]

\* sendReq taking the id from the size of the table instead of the counter
sendReq_idFromTableSize(s, h, method, params) ==
    LET n == Len(s.pending) + 1
        id == String(n)
        timer == CallTimer(n, h, method)
        entry == [key |-> id, owner |-> h, method |-> method, timer |-> timer,
                  reject |-> "reject", run |-> None]
    IN [s EXCEPT !.msgId = n,
                 !.timers = @ \cup {timer},
                 !.pending = Set(@, entry),
                 !.sent = Append(@, ReqFrame(s, h, id, method, params))]

\* sendReq leaving a gap in the counter at every request
sendReq_countsByTwo(s, h, method, params) ==
    LET n == s.msgId + 2
        id == String(n)
        timer == CallTimer(n, h, method)
        entry == [key |-> id, owner |-> h, method |-> method, timer |-> timer,
                  reject |-> "reject", run |-> None]
    IN [s EXCEPT !.msgId = n,
                 !.timers = @ \cup {timer},
                 !.pending = Set(@, entry),
                 !.sent = Append(@, ReqFrame(s, h, id, method, params))]

sendReq(s, h, method, params) ==
    LET n == s.msgId + 1
        id == String(n)
        timer == CallTimer(n, h, method)
        entry == [key |-> id, owner |-> h, method |-> method, timer |-> timer,
                  reject |-> "reject", run |-> None]
    IN [s EXCEPT !.msgId = n,
                 !.timers = @ \cup {timer},
                 !.pending = Set(@, entry),
                 !.sent = Append(@, ReqFrame(s, h, id, method, params))]

\* handleResponse matching by arrival order: the oldest entry takes the frame
handleResponse_byArrival(s, msg) ==
    IF ~Has(s.pending, msg.id) THEN s
    ELSE LET entry == Head(s.pending)
             s1 == [s EXCEPT !.timers = @ \ {entry.timer},
                             !.pending = Tail(@)]
         IN IF msg.ok THEN Resolve(s1, entry.key, entry.owner, msg.payload, "response")
            ELSE Reject(s1, entry, Error(ErrorMessage(msg.error), None), "response")

\* handleResponse without its clearTimeout(entry.timer)
handleResponse_keepsTimer(s, msg) ==
    IF ~Has(s.pending, msg.id) THEN s
    ELSE LET entry == Get(s.pending, msg.id)
             s1 == [s EXCEPT !.pending = Delete(@, msg.id)]
         IN IF msg.ok THEN Resolve(s1, entry.key, entry.owner, msg.payload, "response")
            ELSE Reject(s1, entry, Error(ErrorMessage(msg.error), None), "response")

handleResponse(s, msg) ==
    IF ~Has(s.pending, msg.id) THEN s
    ELSE LET entry == Get(s.pending, msg.id)
             s1 == [s EXCEPT !.timers = @ \ {entry.timer},
                             !.pending = Delete(@, msg.id)]
         IN IF msg.ok THEN Resolve(s1, entry.key, entry.owner, msg.payload, "response")
            ELSE Reject(s1, entry, Error(ErrorMessage(msg.error), None), "response")

\* the timer callback of sendReq without its pending.delete(id)
sendReqTimeout_keepsEntry(s, timer) ==
    LET id == String(timer.n)
        s1 == [s EXCEPT !.timers = @ \ {timer}]
        err == Error("Timeout waiting for response to", timer.method)
    IN [s1 EXCEPT !.settled = @ \cup {Settlement(s, id, timer.owner, "rejected", err, "timeout")},
                  !.queue = Append(@, Job(timer.owner, "inner", FALSE, err))]

\* the timer callback of sendReq emptying the table
sendReqTimeout_clearsTable(s, timer) ==
    LET id == String(timer.n)
        s1 == [s EXCEPT !.timers = @ \ {timer}, !.pending = <<>>]
        err == Error("Timeout waiting for response to", timer.method)
    IN [s1 EXCEPT !.settled = @ \cup {Settlement(s, id, timer.owner, "rejected", err, "timeout")},
                  !.queue = Append(@, Job(timer.owner, "inner", FALSE, err))]

\* the timer callback of sendReq
sendReqTimeout(s, timer) ==
    LET id == String(timer.n)
        s1 == [s EXCEPT !.timers = @ \ {timer}, !.pending = Delete(@, id)]
        err == Error("Timeout waiting for response to", timer.method)
    IN [s1 EXCEPT !.settled = @ \cup {Settlement(s, id, timer.owner, "rejected", err, "timeout")},
                  !.queue = Append(@, Job(timer.owner, "inner", FALSE, err))]

die(s, code) == [s EXCEPT !.exitCode = code]

cleanup(s, code) ==
    [s EXCEPT !.timers = @ \ {s.pending[i].timer : i \in 1..Len(s.pending)},
              !.pending = <<>>,
              !.closeCalled = @ \/ s.wsState # "closed",
              !.exitCode = code]

\* ------------------------------------------------------- command handlers
\* runSend without its `if (!sendRunId) return sendResult`
runSend_alwaysWaits(s, h, j) ==
    IF ~j.ok THEN [s EXCEPT !.queue = Append(@, Job(h, "runCommand", FALSE, j.value))]
    ELSE LET run == j.value.run
             s1 == [s EXCEPT !.sendRunId = run]
         IN [s1 EXCEPT !.timers = @ \cup {WaitTimer(h, run)},
                       !.pending = Set(@, [key |-> WaitKey, owner |-> h, method |-> None,
                                           timer |-> WaitTimer(h, run), reject |-> "resolve",
                                           run |-> run]),
                       !.pc[h] = "wait"]

\* runSend registering the wait without its setTimeout
runSend_noDeadline(s, h, j) ==
    IF ~j.ok THEN [s EXCEPT !.queue = Append(@, Job(h, "runCommand", FALSE, j.value))]
    ELSE LET run == j.value.run
             s1 == [s EXCEPT !.sendRunId = run]
         IN IF run = None
            THEN [s1 EXCEPT !.queue = Append(@, Job(h, "runCommand", TRUE, j.value))]
            ELSE [s1 EXCEPT !.pending = Set(@, [key |-> WaitKey, owner |-> h, method |-> None,
                                                timer |-> WaitTimer(h, run), reject |-> "resolve",
                                                run |-> run]),
                            !.pc[h] = "wait"]

\* runSend after `await sendReq("chat.send", ...)`
runSend(s, h, j) ==
    IF ~j.ok THEN [s EXCEPT !.queue = Append(@, Job(h, "runCommand", FALSE, j.value))]
    ELSE LET run == j.value.run
             s1 == [s EXCEPT !.sendRunId = run]
         IN IF run = None
            THEN [s1 EXCEPT !.queue = Append(@, Job(h, "runCommand", TRUE, j.value))]
            ELSE [s1 EXCEPT !.timers = @ \cup {WaitTimer(h, run)},
                            !.pending = Set(@, [key |-> WaitKey, owner |-> h, method |-> None,
                                                timer |-> WaitTimer(h, run), reject |-> "resolve",
                                                run |-> run]),
                            !.pc[h] = "wait"]

\* the timer callback of runSend
runSendTimeout(s, timer) ==
    LET s1 == [s EXCEPT !.timers = @ \ {timer}, !.pending = Delete(@, WaitKey)]
    IN Resolve(s1, WaitKey, timer.owner, WaitResult(s.sendRunId, "timeout"), "timeout")

\* runCommand up to its first await
runCommand(s, h) ==
    IF command = "send"
    THEN [sendReq(s, h, "chat.send", NoParams) EXCEPT !.pc[h] = "send"]
    ELSE [sendReq(s, h, buildRequest(command), NoParams) EXCEPT !.pc[h] = "call"]

\* runCommand whose catch sends the request once more
runCommandResume_resends(s, h, j) ==
    IF j.ok
    THEN [s EXCEPT !.stdout = Append(@, j.value),
                   !.pc[h] = "main",
                   !.queue = Append(@, Job(h, "main", TRUE, Undefined))]
    ELSE runCommand(s, h)

\* runCommand once the awaited result is there: print it, or catch
runCommandResume(s, h, j) ==
    IF j.ok
    THEN [s EXCEPT !.stdout = Append(@, j.value),
                   !.pc[h] = "main",
                   !.queue = Append(@, Job(h, "main", TRUE, Undefined))]
    ELSE cleanup(s, EXIT.OP)

\* ------------------------------------------------------------- handshake
\* the challenge branch sending the gateway token whatever is cached
onChallenge_gatewayTokenFirst(s, h, nonce) ==
    LET s1 == [s EXCEPT !.connTimer = FALSE, !.connectNonce = nonce]
    IN [sendReq(s1, h, "connect", ConnectParams(TOKEN, DateNow(s))) EXCEPT !.pc[h] = "connect1"]

\* the challenge branch without clearTimeout(connTimer)
onChallenge_keepsConnTimer(s, h, nonce) ==
    LET s1 == [s EXCEPT !.connectNonce = nonce]
        authToken == IF STORED_DEVICE_TOKEN # None THEN STORED_DEVICE_TOKEN ELSE TOKEN
    IN [sendReq(s1, h, "connect", ConnectParams(authToken, DateNow(s))) EXCEPT !.pc[h] = "connect1"]

\* the challenge branch signing the nonce along with the other fields
onChallenge_signsNonce(s, h, nonce) ==
    LET s1 == [s EXCEPT !.connTimer = FALSE, !.connectNonce = nonce]
        authToken == IF STORED_DEVICE_TOKEN # None THEN STORED_DEVICE_TOKEN ELSE TOKEN
        params == ConnectParams(authToken, DateNow(s))
    IN [sendReq(s1, h, "connect",
                [params EXCEPT !.device.signature.payload = Append(@, nonce)])
        EXCEPT !.pc[h] = "connect1"]

\* ws.onmessage, challenge branch, up to the first await
onChallenge(s, h, nonce) ==
    LET s1 == [s EXCEPT !.connTimer = FALSE, !.connectNonce = nonce]
        authToken == IF STORED_DEVICE_TOKEN # None THEN STORED_DEVICE_TOKEN ELSE TOKEN
    IN [sendReq(s1, h, "connect", ConnectParams(authToken, DateNow(s))) EXCEPT !.pc[h] = "connect1"]

\* the catch block of the first attempt, retrying without fs.unlinkSync
onConnectRejected_keepsCache(s, h, e) ==
    IF STORED_DEVICE_TOKEN # None /\ IsStaleMessage(e)
    THEN [sendReq(s, h, "connect", ConnectParams(TOKEN, DateNow(s))) EXCEPT !.pc[h] = "connect2"]
    ELSE die(s, EXIT.AUTH)

\* the catch block of the first attempt without the STORED_DEVICE_TOKEN guard
onConnectRejected_alwaysRetries(s, h, e) ==
    IF IsStaleMessage(e)
    THEN LET s1 == [s EXCEPT !.file = unlinkSync(s.file)]
         IN [sendReq(s1, h, "connect", ConnectParams(TOKEN, DateNow(s))) EXCEPT !.pc[h] = "connect2"]
    ELSE die(s, EXIT.AUTH)

\* the catch block of the first attempt
onConnectRejected(s, h, e) ==
    IF STORED_DEVICE_TOKEN # None /\ IsStaleMessage(e)
    THEN LET s1 == [s EXCEPT !.file = unlinkSync(s.file)]
         IN [sendReq(s1, h, "connect", ConnectParams(TOKEN, DateNow(s))) EXCEPT !.pc[h] = "connect2"]
    ELSE die(s, EXIT.AUTH)

\* the catch block of the retry going on to the command instead of die()
onRetryRejected_runsCommand(s, h, e) == runCommand(s, h)

\* the catch block of the retry
onRetryRejected(s, h, e) == die(s, EXIT.AUTH)

\* the success path without storeDeviceToken
onConnected_skipsStore(s, h, connectResult) ==
    runCommand([s EXCEPT !.authenticated = TRUE], h)

\* the success path going on when the write of the token fails
onConnected_ignoresWriteError(s, h, connectResult) ==
    LET s1 == IF connectResult.tok # None /\ ~s.fsFails
              THEN [s EXCEPT !.file = storeDeviceToken(s.file, DeviceId, ROLE, connectResult.tok,
                                        IF connectResult.scopes # None
                                        THEN connectResult.scopes ELSE SCOPES)]
              ELSE s
    IN runCommand([s1 EXCEPT !.authenticated = TRUE], h)

\* what mkdirSync / writeFileSync throw
FsError == Error("EACCES: permission denied", None)

\* after a connect request was answered ok: store the token, run the command.
\* storeDeviceToken is called inside the try of the attempt: when its write
\* throws, the catch of that try takes the error (line 357 for the first
\* attempt, line 385 for the retry) and the file is as before
onConnected(s, h, connectResult) ==
    IF connectResult.tok # None /\ s.fsFails
    THEN IF s.pc[h] = "connect1" THEN onConnectRejected(s, h, FsError)
         ELSE onRetryRejected(s, h, FsError)
    ELSE LET s1 == IF connectResult.tok # None
                   THEN [s EXCEPT !.file = storeDeviceToken(s.file, DeviceId, ROLE, connectResult.tok,
                                             IF connectResult.scopes # None
                                             THEN connectResult.scopes ELSE SCOPES)]
                   ELSE s
         IN runCommand([s1 EXCEPT !.authenticated = TRUE], h)

\* one microtask: handler j.h resumes where it is suspended
RunJob(s, j) ==
    LET h == j.h
        at == s.pc[h]
    IN CASE j.stage = "inner" /\ at = "connect1" ->
                IF j.ok THEN onConnected(s, h, j.value) ELSE onConnectRejected(s, h, j.value)
         [] j.stage = "inner" /\ at = "connect2" ->
                IF j.ok THEN onConnected(s, h, j.value) ELSE onRetryRejected(s, h, j.value)
         [] j.stage = "inner" /\ at = "call" -> runCommandResume(s, h, j)
         [] j.stage = "inner" /\ at = "send" -> runSend(s, h, j)
         \* the promise runSend returned settles the promise of runSend() one tick later
         [] j.stage = "inner" /\ at = "wait" ->
                [s EXCEPT !.queue = Append(@, Job(h, "runCommand", j.ok, j.value))]
         [] j.stage = "runCommand" -> runCommandResume(s, h, j)
         [] j.stage = "main" -> cleanup(s, EXIT.OK)
         [] OTHER -> s

\* run the microtask queue to the end, or to process.exit
RECURSIVE Drain(_)
Drain(s) ==
    IF s.exitCode # NotExited \/ s.queue = <<>> THEN [s EXCEPT !.queue = <<>>]
    \* the state after the job is computed once, then drained
    ELSE CHOOSE r \in {Drain(x) : x \in {RunJob([s EXCEPT !.queue = Tail(@)], Head(s.queue))}} : TRUE

\* ---------------------------------------------------------- socket events
RECURSIVE RejectAll(_, _)
RejectAll(s, entries) ==
    IF entries = <<>> THEN s
    ELSE LET entry == Head(entries)
             s1 == [s EXCEPT !.timers = @ \ {entry.timer}]
         IN RejectAll(Reject(s1, entry, Error("Connection closed unexpectedly", None), "close"),
                      Tail(entries))

\* ws.onclose emptying the table without rejecting its entries
onclose_clearsOnly(s) ==
    IF ~s.authenticated
    THEN die([s EXCEPT !.connTimer = FALSE], EXIT.CONN)
    ELSE [s EXCEPT !.pending = <<>>]

\* ws.onclose without its test of the authenticated flag
onclose_ignoresAuthenticated(s) == [RejectAll(s, s.pending) EXCEPT !.pending = <<>>]

onclose(s) ==
    IF ~s.authenticated
    THEN die([s EXCEPT !.connTimer = FALSE], EXIT.CONN)
    ELSE [RejectAll(s, s.pending) EXCEPT !.pending = <<>>]

\* process.on("SIGINT") / process.on("SIGTERM")
onSignal(s) == cleanup(s, EXIT.OP)

\* ws.onerror handling the error the way ws.onclose handles a close
onerror_rejectsPending(s) == onclose(s)

onerror(s) == die([s EXCEPT !.connTimer = FALSE], EXIT.CONN)

\* the callback of connTimer
onConnTimeout(s) == die(s, EXIT.CONN)

\* ws.onmessage on a frame that is not a JSON object.  "unparseable": JSON.parse
\* throws, the catch logs and returns.  "scalar" (a number, a string, true):
\* msg.type is undefined and no branch is taken.  "null": msg.type throws a
\* TypeError outside the try, the promise of the async handler rejects with
\* nobody handling it; the runtime then ends the process with UncaughtExit
\* (its default) or only warns (--unhandled-rejections=warn).
MalformedKinds == {"unparseable", "scalar", "null"}
UncaughtExit == 1
onMalformed(s, kind, fatal) ==
    IF kind = "null" /\ fatal THEN [s EXCEPT !.exitCode = UncaughtExit] ELSE s

\* the lifecycle branch keeping the run of an end event nobody waits for
onLifecycle_remembersEarlyEnd(s, run, phase) ==
    IF s.sendRunId # None /\ phase = "end" /\ run = s.sendRunId /\ Has(s.pending, WaitKey)
    THEN LET entry == Get(s.pending, WaitKey)
             s1 == [s EXCEPT !.timers = @ \ {entry.timer}, !.pending = Delete(@, WaitKey)]
         IN Resolve(s1, entry.key, entry.owner, WaitResult(s.sendRunId, "completed"), "lifecycle")
    ELSE IF phase = "end" /\ s.sendRunId = None THEN [s EXCEPT !.sendRunId = run]
    ELSE s

\* ws.onmessage, lifecycle branch
onLifecycle(s, run, phase) ==
    IF s.sendRunId # None /\ phase = "end" /\ run = s.sendRunId /\ Has(s.pending, WaitKey)
    THEN LET entry == Get(s.pending, WaitKey)
             s1 == [s EXCEPT !.timers = @ \ {entry.timer}, !.pending = Delete(@, WaitKey)]
         IN Resolve(s1, entry.key, entry.owner, WaitResult(s.sendRunId, "completed"), "lifecycle")
    ELSE s

\* ---------------------------------------------------------------- actions
Apply(s) ==
    \E x \in {s} :
        /\ file' = x.file
        /\ msgId' = x.msgId
        /\ pending' = x.pending
        /\ timers' = x.timers
        /\ connTimer' = x.connTimer
        /\ authenticated' = x.authenticated
        /\ sendRunId' = x.sendRunId
        /\ connectNonce' = x.connectNonce
        /\ pc' = x.pc
        /\ wsState' = x.wsState
        /\ closeCalled' = x.closeCalled
        /\ exitCode' = x.exitCode
        /\ sent' = x.sent
        /\ stdout' = x.stdout
        /\ settled' = x.settled
        /\ UNCHANGED <<command, STORED_DEVICE_TOKEN, file0, identityFile, IDENTITY, keysGenerated>>

Running == exitCode = NotExited
Open == Running /\ wsState = "open"
Exited == exitCode # NotExited

Nonces == {"abc", "xyz"}
Phases == {"start", "end"}
FrameIds == {String(n) : n \in 1..(msgId + 1)} \cup {WaitKey}
ResFrames ==
    {ResFrame(id, TRUE, p, None) : id \in FrameIds, p \in Payloads}
    \cup {ResFrame(id, FALSE, Undefined, d) : id \in FrameIds, d \in ErrDetails}

Challenge ==
    /\ Open
    /\ \E h \in Handlers :
         /\ pc[h] = "idle"
         /\ \A g \in Handlers : g < h => pc[g] # "idle"
         /\ \E nonce \in Nonces :
              Apply(Drain(onChallenge(Cur, h, nonce)))

\* a frame whose id no entry waits for is tried with one body only
Response ==
    /\ Open
    /\ \E msg \in ResFrames :
         /\ Has(pending, msg.id) \/ (msg.ok /\ msg.payload.text = "p1")
         /\ Apply(Drain(handleResponse(Cur, msg)))

Lifecycle ==
    /\ Open
    /\ \E run \in RunIds, phase \in Phases :
         Apply(Drain(onLifecycle(Cur, run, phase)))

Close ==
    /\ Open
    /\ Apply(Drain(onclose([Cur EXCEPT !.wsState = "closed"])))

SocketError ==
    /\ Open
    /\ Apply(onerror(Cur))

CallTimeout ==
    /\ Running
    /\ \E t \in timers :
         /\ t.kind = "call"
         /\ Apply(Drain(sendReqTimeout(Cur, t)))

WaitTimeout ==
    /\ Running
    /\ \E t \in timers :
         /\ t.kind = "wait"
         /\ Apply(Drain(runSendTimeout(Cur, t)))

ConnTimeout ==
    /\ Running
    /\ connTimer
    /\ Apply(onConnTimeout(Cur))

Malformed ==
    /\ Open
    /\ \E kind \in MalformedKinds, fatal \in BOOLEAN :
         Apply(onMalformed(Cur, kind, fatal))

Signal ==
    /\ Running
    /\ Apply(onSignal(Cur))

Init ==
    /\ command \in Commands
    /\ file \in InitFiles
    /\ file0 = file
    /\ STORED_DEVICE_TOKEN = loadStoredDeviceToken(file, DeviceId, ROLE)
    /\ msgId = 0
    /\ pending = <<>>
    /\ timers = {}
    /\ connTimer = TRUE
    /\ authenticated = FALSE
    /\ sendRunId = None
    /\ connectNonce = None
    /\ pc = [h \in Handlers |-> "idle"]
    /\ wsState = "open"
    /\ closeCalled = FALSE
    /\ exitCode = NotExited
    /\ sent = <<>>
    /\ stdout = <<>>
    /\ settled = {}
    /\ identityFile = RunIdentity
    /\ IDENTITY = RunIdentity
    /\ keysGenerated = 0

Next ==
    \/ Challenge
    \/ Response
    \/ Lifecycle
    \/ Close
    \/ SocketError
    \/ CallTimeout
    \/ WaitTimeout
    \/ ConnTimeout
    \/ Malformed
    \/ Signal

Spec == Init /\ [][Next]_vars


\* ================================================================= claims
CallEntries(p) == {i \in 1..Len(p) : p[i].key # WaitKey}
ConnectFramesOf(h) == {i \in 1..Len(sent) : sent[i].method = "connect" /\ sent[i].owner = h}
StaleDetails == {"device_token_mismatch", "unauthorized"}
ClosedMessage == "Connection closed unexpectedly"
TimeoutMessage == "Timeout waiting for response to"

\* the one settlement a step added to the history
Added(s2, key, owner, how, by) ==
    \E x \in s2.settled :
        /\ x \notin settled
        /\ s2.settled = settled \cup {x}
        /\ x.key = key /\ x.owner = owner /\ x.how = how /\ x.by = by /\ x.nth = 1

\* C1: whatever calls are outstanding and whatever frame arrives, handleResponse
\* settles exactly the call sendReq issued under the frame's id (resolving it
\* with the frame's payload when ok, rejecting it with the frame's error detail
\* otherwise), cancels that call's timer, and removes no other entry.
C1_ResponseSettlesMatchingCall ==
    \A msg \in ResFrames :
        (Open /\ Has(pending, msg.id) /\ msg.id # WaitKey) =>
            LET e == Get(pending, msg.id)
                s2 == handleResponse(Cur, msg)
                value == IF msg.ok THEN msg.payload ELSE Error(ErrorMessage(msg.error), None)
            IN /\ \A i \in 1..Len(sent) :
                    sent[i].id = msg.id => (sent[i].owner = e.owner /\ sent[i].method = e.method)
               /\ s2.pending = SelectSeq(pending, LAMBDA x : x.key # msg.id)
               /\ s2.timers = timers \ {e.timer}
               /\ s2.queue = <<Job(e.owner, "inner", msg.ok, value)>>
               /\ Added(s2, msg.id, e.owner, IF msg.ok THEN "resolved" ELSE "rejected", "response")

\* two calls were outstanding and the later one was answered first
C1_Witness ==
    /\ exitCode = NotExited
    /\ Has(pending, String(1))
    /\ \E x \in settled : x.key = String(2) /\ x.by = "response" /\ x.how = "resolved"

\* C2: when the timer of a call fires, the call is rejected once with the timeout
\* error naming the method it was issued for and its id leaves the table; no
\* promise is ever settled twice; a response for an id the table does not hold
\* (so also for the id that timed out) changes nothing.
C2_TimeoutRejectsOnceAndLateResponseIsDropped ==
    /\ \A x \in settled : x.nth = 1
    /\ \A msg \in ResFrames :
           (Open /\ ~Has(pending, msg.id)) => Drain(handleResponse(Cur, msg)) = Cur
    /\ \A t \in timers :
           (Running /\ t.kind = "call") =>
               LET id == String(t.n)
                   s2 == sendReqTimeout(Cur, t)
                   after == Drain(s2)
               IN /\ Has(pending, id)
                  /\ s2.pending = SelectSeq(pending, LAMBDA x : x.key # id)
                  /\ s2.queue = <<Job(t.owner, "inner", FALSE, Error(TimeoutMessage, sent[t.n].method))>>
                  /\ Added(s2, id, t.owner, "rejected", "timeout")
                  /\ ~Has(after.pending, id)
                  /\ \A msg \in ResFrames : msg.id = id => handleResponse(after, msg) = after

\* the business call timed out
C2_Witness ==
    /\ exitCode = EXIT.OP
    /\ \E x \in settled :
           /\ x.by = "timeout" /\ x.how = "rejected" /\ x.text = TimeoutMessage
           /\ pc[x.owner] \in {"call", "send"}

C4_NoRetryWithoutCachedToken ==
    STORED_DEVICE_TOKEN = None =>
        /\ \A h \in Handlers : Cardinality(ConnectFramesOf(h)) <= 1
        /\ \A i \in 1..Len(sent) : sent[i].method = "connect" => sent[i].token = TOKEN
        /\ file0.kind # "absent" => file.kind # "absent"
        /\ \A msg \in ResFrames :
               (Open /\ Has(pending, msg.id) /\ msg.id # WaitKey /\ ~msg.ok
                   /\ pc[Get(pending, msg.id).owner] = "connect1") =>
                   LET s2 == Drain(handleResponse(Cur, msg))
                   IN s2.exitCode = EXIT.AUTH /\ s2.sent = sent /\ s2.file = file
        /\ \A t \in timers :
               (Running /\ t.kind = "call" /\ pc[t.owner] = "connect1") =>
                   LET s2 == Drain(sendReqTimeout(Cur, t))
                   IN s2.exitCode = EXIT.AUTH /\ s2.sent = sent /\ s2.file = file
        /\ Open =>
               LET s2 == Drain(onclose([Cur EXCEPT !.wsState = "closed"]))
               IN s2.sent = sent /\ s2.file = file

\* no token was cached although a cache file exists, and the gateway rejected the
\* first attempt as stale
C4_Witness ==
    /\ STORED_DEVICE_TOKEN = None
    /\ file0.kind = "record"
    /\ exitCode = EXIT.AUTH
    /\ \E x \in settled :
           /\ x.how = "rejected" /\ x.by = "response" /\ x.text = "device_token_mismatch"
           /\ pc[x.owner] = "connect1"

\* a handshake that ended in the catch block of its last attempt
Failed(h) ==
    /\ pc[h] \in {"connect1", "connect2"}
    /\ \E i \in ConnectFramesOf(h) :
           /\ \A j \in ConnectFramesOf(h) : j <= i
           /\ \E x \in settled : x.key = sent[i].id /\ x.how = "rejected"

\* C5: every request other than connect left while authenticated was true and
\* after a connect request of this run had been answered ok; a failed handshake
\* has ended the process, which then takes no further step.
C5_NoBusinessCallBeforeAuthenticated ==
    /\ \A i \in 1..Len(sent) :
           sent[i].method # "connect" =>
               /\ sent[i].authenticated
               /\ \E j \in 1..(i - 1) :
                      /\ sent[j].method = "connect"
                      /\ sent[j].owner = sent[i].owner
                      /\ \E x \in settled :
                             x.key = sent[j].id /\ x.how = "resolved" /\ x.by = "response"
    /\ ~authenticated => \A i \in 1..Len(sent) : sent[i].method = "connect"
    /\ \A h \in Handlers :
           Failed(h) => /\ exitCode # NotExited
                        /\ \A i \in 1..Len(sent) : sent[i].owner = h => sent[i].method = "connect"
    /\ exitCode # NotExited => ~ENABLED Next

\* one handshake succeeded and issued its business call, another one failed
C5_Witness ==
    /\ exitCode = EXIT.AUTH
    /\ \E h \in Handlers : Failed(h)
    /\ \E i \in 1..Len(sent) : sent[i].method # "connect"

\* C6: an outstanding completion wait (its timer armed) of an invocation whose
\* chat.send resolved with run r is resolved with {runId: r, status: completed},
\* and its timer cancelled, by a lifecycle event for r in phase end, and is left
\* alone by every other lifecycle event.
C6_MatchingEndEventResolvesWait ==
    \A t \in timers :
        (Open /\ t.kind = "wait") =>
            \A run \in RunIds, phase \in Phases :
                LET s2 == onLifecycle(Cur, run, phase)
                IN IF run = t.run /\ phase = "end"
                   THEN /\ t \notin s2.timers
                        /\ \E k \in 1..Len(s2.queue) :
                               s2.queue[k] = Job(t.owner, "inner", TRUE, WaitResult(t.run, "completed"))
                   ELSE /\ t \in s2.timers
                        /\ \A k \in 1..Len(s2.queue) : s2.queue[k].h # t.owner

\* C7: a completion wait the closing socket settles is rejected, and the
\* process ends with the operation-failed status.
C7_CloseRejectsCompletionWait ==
    \A x \in settled :
        (x.key = WaitKey /\ x.by = "close") => (x.how = "rejected" /\ exitCode = EXIT.OP)

\* C8: when the timer of a completion wait fires, the invocation whose chat.send
\* resolved with run r prints {runId: r, status: timeout}, the wait entry is
\* gone, and the process ends with status 0.
C8_WaitTimeoutIsSoftResult ==
    \A t \in timers :
        (Running /\ t.kind = "wait") =>
            LET s2 == Drain(runSendTimeout(Cur, t))
            IN /\ s2.stdout = Append(stdout, WaitResult(t.run, "timeout"))
               /\ ~Has(s2.pending, WaitKey)
               /\ s2.exitCode = EXIT.OK

\* C9: the close event after authentication rejects every call in the table
\* with the connection-closed error, cancels its timer and empties the table.
C9_CloseRejectsPendingCalls ==
    (Open /\ authenticated) =>
        LET s2 == onclose([Cur EXCEPT !.wsState = "closed"])
        IN /\ s2.pending = <<>>
           /\ \A i \in CallEntries(pending) :
                  /\ pending[i].timer \notin s2.timers
                  /\ \E x \in s2.settled :
                         /\ x \notin settled
                         /\ x.key = pending[i].key /\ x.owner = pending[i].owner
                         /\ x.how = "rejected" /\ x.by = "close" /\ x.text = ClosedMessage
                         /\ x.nth = 1
                  /\ \E k \in 1..Len(s2.queue) :
                         s2.queue[k] = Job(pending[i].owner, "inner", FALSE, Error(ClosedMessage, None))

\* the socket closed while a business call was pending
C9_Witness ==
    /\ exitCode = EXIT.OP
    /\ wsState = "closed"
    /\ \E x \in settled :
           /\ x.key # WaitKey /\ x.by = "close" /\ x.how = "rejected"
           /\ pc[x.owner] \in {"call", "send"}

\* C10: an interrupt settles every entry of the table before the process exits
\* and closes the socket.
C10_InterruptSettlesPending ==
    Running =>
        LET s2 == onSignal(Cur)
        IN /\ \A i \in 1..Len(pending) :
                  \E x \in s2.settled : x.key = pending[i].key /\ x.owner = pending[i].owner
           /\ wsState # "closed" => s2.closeCalled
           /\ s2.exitCode # NotExited

\* a response frame rejecting a connect request that is pending
ConnectRejections ==
    {msg \in ResFrames :
        /\ ~msg.ok /\ Has(pending, msg.id) /\ msg.id # WaitKey
        /\ Get(pending, msg.id).method = "connect"}
\* the rejection the catch block answers with the retry
IsRetried(msg) ==
    /\ pc[Get(pending, msg.id).owner] = "connect1"
    /\ STORED_DEVICE_TOKEN # None
    /\ msg.error \in StaleDetails
ClosedNow == [Cur EXCEPT !.wsState = "closed"]

\* C11 (as stated): while authenticated is false a close event ends the process
\* with status 1, and every connect request answered ok=false ends the process
\* with status 2.
C11_CloseIsConnFailureRejectionIsAuthFailure ==
    Open =>
        /\ ~authenticated => Drain(onclose(ClosedNow)).exitCode = EXIT.CONN
        /\ \A msg \in ConnectRejections :
               Drain(handleResponse(Cur, msg)).exitCode = EXIT.AUTH

\* C11 (amended): while authenticated is false a close event ends the process
\* with status 1, whether no challenge has arrived, the first connect is pending
\* or the retry is pending; a connect request answered ok=false ends the process
\* with status 2, except the first attempt made with the cached token and
\* rejected as stale, which is answered by the retry and ends nothing.
C11_CloseIsConnFailureFinalRejectionIsAuthFailure ==
    Open =>
        /\ ~authenticated =>
               LET s2 == Drain(onclose(ClosedNow))
               IN s2.exitCode = EXIT.CONN /\ s2.sent = sent /\ s2.settled = settled
        /\ \A msg \in ConnectRejections :
               LET s2 == Drain(handleResponse(Cur, msg))
               IN IF IsRetried(msg)
                  THEN s2.exitCode = NotExited /\ Len(s2.sent) = Len(sent) + 1
                  ELSE s2.exitCode = EXIT.AUTH /\ s2.sent = sent

\* the socket closed while the retry was pending
C11_Witness ==
    /\ exitCode = EXIT.CONN
    /\ wsState = "closed"
    /\ ~authenticated
    /\ \E h \in Handlers : pc[h] = "connect2" /\ Cardinality(ConnectFramesOf(h)) = 2

\* C12: processing a challenge disarms connTimer, which stays disarmed from then
\* on, so it fires only while no challenge has arrived and nothing was sent,
\* and then ends the process with status 1; a connect call that outlives its own
\* timer is rejected by that timer alone (connTimer is no longer armed) and the
\* process ends with status 2.
C12_ConnDeadlineCancelledByChallenge ==
    /\ (\E h \in Handlers : pc[h] # "idle") => ~connTimer
    /\ connTimer => (sent = <<>> /\ pending = <<>> /\ timers = {} /\ ~authenticated)
    /\ (Open /\ pc[1] = "idle") =>
           \A nonce \in Nonces : ~Drain(onChallenge(Cur, 1, nonce)).connTimer
    /\ (Running /\ connTimer) =>
           LET s2 == onConnTimeout(Cur)
           IN s2.exitCode = EXIT.CONN /\ s2.sent = <<>>
    /\ \A t \in timers :
           (Running /\ t.kind = "call" /\ t.method = "connect") =>
               LET s2 == Drain(sendReqTimeout(Cur, t))
               IN /\ ~connTimer
                  /\ s2.exitCode = EXIT.AUTH
                  /\ \E x \in s2.settled :
                         x \notin settled /\ x.by = "timeout" /\ x.text = TimeoutMessage

\* the first connect call timed out after the challenge had disarmed connTimer
C12_Witness ==
    /\ exitCode = EXIT.AUTH
    /\ ~connTimer
    /\ \E x \in settled :
           x.key = String(1) /\ x.by = "timeout" /\ pc[x.owner] = "connect1"

\* C13: a business call whose timer fires, and a completion wait whose timer
\* fires, end the process with status 4.
C13_TimeoutExitsWithTimeoutStatus ==
    \A t \in timers :
        Running =>
            /\ (t.kind = "call" /\ t.method # "connect") =>
                   Drain(sendReqTimeout(Cur, t)).exitCode = EXIT.TIMEOUT
            /\ t.kind = "wait" =>
                   Drain(runSendTimeout(Cur, t)).exitCode = EXIT.TIMEOUT

\* a request of this run that a response frame resolved
AnsweredOk(i) ==
    \E x \in settled :
        x.key = sent[i].id /\ x.owner = sent[i].owner /\ x.how = "resolved" /\ x.by = "response"
ExitOkAfterAnswers ==
    exitCode = EXIT.OK =>
        /\ \E i \in 1..Len(sent) : sent[i].method = "connect" /\ AnsweredOk(i)
        /\ \E i \in 1..Len(sent) : sent[i].method # "connect" /\ AnsweredOk(i)
        /\ \A h \in Handlers : ~Failed(h)
        /\ \A x \in settled :
               x.how = "rejected" =>
                   \E i \in 1..Len(sent) : sent[i].id = x.key /\ sent[i].method = "connect"

\* C14: the process ends with status 0 only after a connect request and the
\* business call were answered ok, and never after a failed handshake, a
\* rejected or timed-out business call, or the socket closing once
\* authenticated.
C14_ExitZeroMeansSuccess ==
    /\ ExitOkAfterAnswers
    /\ exitCode = EXIT.OK => (wsState = "open" /\ \A x \in settled : x.by # "close")

\* C15: a frame that is not a JSON object (unparseable text, a scalar, null)
\* changes nothing: the process keeps running with the same table, flag, run id
\* and timers.
C15_MalformedFrameIsDropped ==
    Open =>
        \A kind \in MalformedKinds, fatal \in BOOLEAN :
            LET s2 == onMalformed(Cur, kind, fatal)
            IN /\ s2.exitCode = NotExited
               /\ s2.pending = pending /\ s2.timers = timers
               /\ s2.authenticated = authenticated /\ s2.sendRunId = sendRunId

\* the token the cache held for this identity and role when the process started
CachedAtStart == loadStoredDeviceToken(file0, DeviceId, ROLE)
FirstAttemptToken == IF CachedAtStart # None THEN CachedAtStart ELSE TOKEN

\* C16: the first connect request of every challenge carries the token the
\* cache held for this identity and role at start, or the gateway token when it
\* held none; every later connect request of that challenge (the retry)
\* carries the gateway token.
C16_FirstAttemptPrefersCachedToken ==
    /\ \A h \in Handlers :
           \A i \in ConnectFramesOf(h) :
               IF \A j \in ConnectFramesOf(h) : i <= j
               THEN sent[i].token = FirstAttemptToken
               ELSE sent[i].token = TOKEN
    /\ \A h \in Handlers :
           (Open /\ pc[h] = "idle") =>
               \A nonce \in Nonces :
                   LET s2 == onChallenge(Cur, h, nonce)
                   IN /\ Len(s2.sent) = Len(sent) + 1
                      /\ s2.sent[Len(s2.sent)].method = "connect"
                      /\ s2.sent[Len(s2.sent)].token = FirstAttemptToken

\* a first attempt left with the cached token and its retry with the gateway token
C16_Witness ==
    \E h \in Handlers :
        \E i, j \in ConnectFramesOf(h) :
            i < j /\ sent[i].token = "tok-old" /\ sent[j].token = TOKEN /\ CachedAtStart = "tok-old"

\* C17: a connect request (first attempt or retry) answered ok with a device
\* token t leaves the cache holding t for this identity and role, whatever it
\* held before, so that loading it returns t; answered ok without a token it
\* leaves the cache file as it was.
C17_IssuedTokenIsCached ==
    \A msg \in ResFrames :
        (Open /\ msg.ok /\ Has(pending, msg.id) /\ msg.id # WaitKey
              /\ Get(pending, msg.id).method = "connect") =>
            LET s2 == Drain(handleResponse(Cur, msg))
                t == msg.payload.tok
            IN /\ s2.authenticated
               /\ IF t # None
                  THEN /\ loadStoredDeviceToken(s2.file, DeviceId, ROLE) = t
                       /\ s2.file.kind = "record"
                       /\ s2.file.tokens[ROLE].token = t
                  ELSE s2.file = file

\* the first attempt, made with the cached token, was accepted and the token
\* it brought replaced the cached one
C17_Witness ==
    /\ exitCode = NotExited
    /\ CachedAtStart = "tok-old"
    /\ loadStoredDeviceToken(file, DeviceId, ROLE) = "tok-new"
    /\ \A h \in Handlers : Cardinality(ConnectFramesOf(h)) <= 1

\* C19: the stale rejection of the first attempt removes from the cache only
\* the entry of this role; the record stays and keeps the entries of the other
\* roles.
C19_StaleEntryAloneIsDeleted ==
    \A msg \in ConnectRejections :
        (Open /\ IsRetried(msg) /\ file.kind = "record") =>
            LET s2 == Drain(handleResponse(Cur, msg))
            IN /\ s2.file.kind = "record"
               /\ s2.file.tokens[ROLE] = NoEntry
               /\ \A r \in Roles \ {ROLE} : s2.file.tokens[r] = file.tokens[r]

\* ------------------------------------------------- the token cache alone
\* The cache file over successive invocations: a run stores a token
\* (storeDeviceToken), removes the file (fs.unlinkSync), and the next run
\* loads from what it finds (line 184).  The identity may differ between runs
\* (the identity file was regenerated), so records of both identifiers occur.
DeviceIds == {DeviceId, OtherDeviceId}
Tokens == {"tok-old", "tok-new"}
ScopeSets == {SCOPES, "operator.read"}
CacheInitFiles ==
    InitFiles \cup {CorruptFile}
    \cup {Record(v, d, f.tokens) : v \in {1, 2}, d \in DeviceIds, f \in InitFiles}

procVars == <<command, file0, msgId, pending, timers, connTimer, authenticated, sendRunId,
              connectNonce, pc, wsState, closeCalled, exitCode, sent, stdout, settled,
              identityFile, IDENTITY, keysGenerated>>

CacheInit ==
    /\ command \in Commands
    /\ file \in CacheInitFiles
    /\ file0 = NoFile
    /\ STORED_DEVICE_TOKEN = loadStoredDeviceToken(file, DeviceId, ROLE)
    /\ msgId = 0
    /\ pending = <<>>
    /\ timers = {}
    /\ connTimer = TRUE
    /\ authenticated = FALSE
    /\ sendRunId = None
    /\ connectNonce = None
    /\ pc = [h \in Handlers |-> "idle"]
    /\ wsState = "open"
    /\ closeCalled = FALSE
    /\ exitCode = NotExited
    /\ sent = <<>>
    /\ stdout = <<>>
    /\ settled = {}
    /\ identityFile = RunIdentity
    /\ IDENTITY = RunIdentity
    /\ keysGenerated = 0

CacheStore ==
    /\ \E d \in DeviceIds, r \in Roles, token \in Tokens, scopes \in ScopeSets :
         file' = storeDeviceToken(file, d, r, token, scopes)
    /\ UNCHANGED <<STORED_DEVICE_TOKEN, procVars>>

CacheUnlink ==
    /\ file' = unlinkSync(file)
    /\ UNCHANGED <<STORED_DEVICE_TOKEN, procVars>>

\* the next invocation starts
CacheLoad ==
    /\ STORED_DEVICE_TOKEN' = loadStoredDeviceToken(file, DeviceId, ROLE)
    /\ UNCHANGED <<file, procVars>>

CacheNext ==
    \/ CacheStore
    \/ CacheUnlink
    \/ CacheLoad

SpecCache == CacheInit /\ [][CacheNext]_vars

\* C18: whatever the cache file holds, storing token t for (D, R) and then
\* loading (D, R) returns t (and the scopes stored are the ones given), and what
\* is recorded for every other role R2 under D is the same before and after.
C18_StoreThenLoadRoundTrip ==
    \A d \in DeviceIds, r \in Roles, token \in Tokens, scopes \in ScopeSets :
        LET f2 == storeDeviceToken(file, d, r, token, scopes)
        IN /\ loadStoredDeviceToken(f2, d, r) = token
           /\ f2.tokens[r].scopes = scopes
           /\ \A r2 \in Roles \ {r} :
                  /\ loadStoredDeviceToken(f2, d, r2) = loadStoredDeviceToken(file, d, r2)
                  /\ (file.kind = "record" /\ file.version = 1 /\ file.deviceId = d) =>
                         f2.tokens[r2] = file.tokens[r2]

\* a token was stored for this role in a record that holds a token of the other role
C18_Witness ==
    /\ file.kind = "record" /\ file.version = 1 /\ file.deviceId = DeviceId
    /\ file.tokens[ROLE] = [token |-> "tok-new", scopes |-> "operator.read"]
    /\ file.tokens[OtherRole].token = "tok-node"

\* C20: loading (D, R) returns absent when the file is missing or unparseable,
\* when the record has another version or another identifier than D, and when
\* it has no entry for R; a process that loaded absent sends the gateway token
\* in its first connect request.
C20_LoadMissIsAbsent ==
    /\ \A d \in DeviceIds, r \in Roles :
           (\/ file.kind \in {"absent", "corrupt"}
            \/ file.version # 1
            \/ file.deviceId # d
            \/ file.tokens[r].token = None) =>
               loadStoredDeviceToken(file, d, r) = None
    /\ STORED_DEVICE_TOKEN = None =>
           \A nonce \in Nonces :
               LET s2 == onChallenge(Cur, 1, nonce)
               IN Len(s2.sent) = 1 /\ s2.sent[1].method = "connect" /\ s2.sent[1].token = TOKEN

\* a run under another identifier stored a token for this role, and the
\* process loaded nothing from that record
C20_Witness ==
    /\ file.kind = "record" /\ file.version = 1 /\ file.deviceId = OtherDeviceId
    /\ file.tokens[ROLE].token = "tok-new"
    /\ STORED_DEVICE_TOKEN = None

\* ------------------------------------------------------------ request ids
\* the scenario of one challenge whose first connect attempt succeeded
FirstAttemptSucceeded ==
    /\ pc[2] = "idle"
    /\ Cardinality(ConnectFramesOf(1)) = 1
    /\ \E x \in settled, i \in ConnectFramesOf(1) :
           x.key = sent[i].id /\ x.how = "resolved" /\ x.by = "response"
BusinessFrames == {i \in 1..Len(sent) : sent[i].method # "connect"}

\* the business call goes out under `id` and the response frame of that id
\* resolves it
BusinessCallHasId(id) ==
    FirstAttemptSucceeded =>
        \A i \in BusinessFrames :
            /\ sent[i].id = id
            /\ (Open /\ Has(pending, sent[i].id)) =>
                   \A p \in Payloads :
                       LET s2 == handleResponse(Cur, ResFrame(id, TRUE, p, None))
                       IN /\ Added(s2, sent[i].id, 1, "resolved", "response")
                          /\ ~Has(s2.pending, sent[i].id)

\* C22 as stated: in the scenario where the first connect attempt succeeds, the
\* business call is sent with request id "1" and resolved by the response
\* frame carrying id "1".
C22_BusinessCallHasIdOne == BusinessCallHasId("1")

\* C22: in the scenario of one challenge where the first connect attempt
\* succeeds, the connect request takes id "1" from the counter, so the
\* business call is sent with request id "2" and is resolved by the response
\* frame carrying id "2".
C22_BusinessCallHasIdTwo ==
    /\ BusinessCallHasId("2")
    /\ FirstAttemptSucceeded => \A i \in ConnectFramesOf(1) : sent[i].id = "1"

C22_Witness ==
    /\ FirstAttemptSucceeded
    /\ BusinessFrames # {}
    /\ \E x \in settled : x.key = "2" /\ x.how = "resolved" /\ x.by = "response"

\* C39: storing a token for (D, R) over a cache file that is unparseable or was
\* written under an identifier other than D gives a version-1 record of D that
\* holds the entry for R and no other: what the file recorded for the other
\* roles is gone, under D and under the identifier it was written for.
C39_StoreReplacesForeignRecord ==
    \A d \in DeviceIds, r \in Roles, token \in Tokens, scopes \in ScopeSets :
        (file.kind = "corrupt" \/ (file.kind = "record" /\ file.deviceId # d)) =>
            LET f2 == storeDeviceToken(file, d, r, token, scopes)
            IN /\ f2.kind = "record" /\ f2.version = 1 /\ f2.deviceId = d
               /\ f2.tokens[r] = [token |-> token, scopes |-> scopes]
               /\ \A r2 \in Roles \ {r} :
                      /\ f2.tokens[r2] = NoEntry
                      /\ loadStoredDeviceToken(f2, d, r2) = None
                      /\ loadStoredDeviceToken(f2, file.deviceId, r2) = None

\* a record of the other identifier holding this role's new token only
C39_Witness ==
    /\ file.kind = "record"
    /\ file.deviceId = OtherDeviceId
    /\ file.tokens[ROLE].token = "tok-new"
    /\ file.tokens[OtherRole] = NoEntry

\* ------------------------------------------------------- message consumers
\* the settlements a step added to the history
NewSettlements(s2) == s2.settled \ settled
CallsOf(p) == SelectSeq(p, LAMBDA e : e.key # WaitKey)
WaitsOf(p) == SelectSeq(p, LAMBDA e : e.key = WaitKey)

\* C23: a response frame, whatever id it carries, settles no completion wait
\* and leaves the wait entry in the table; a lifecycle event settles no call
\* and leaves the call entries in the table; a challenge event settles nothing
\* and removes no entry.
C23_ConsumersOwnDisjointKinds ==
    Open =>
        /\ \A msg \in ResFrames :
               LET s2 == handleResponse(Cur, msg)
               IN /\ \A x \in NewSettlements(s2) : x.key # WaitKey
                  /\ WaitsOf(s2.pending) = WaitsOf(pending)
        /\ \A run \in RunIds, phase \in Phases :
               LET s2 == onLifecycle(Cur, run, phase)
               IN /\ \A x \in NewSettlements(s2) : x.key = WaitKey
                  /\ CallsOf(s2.pending) = CallsOf(pending)
        /\ \A h \in Handlers, nonce \in Nonces :
               pc[h] = "idle" =>
                   LET s2 == onChallenge(Cur, h, nonce)
                   IN /\ NewSettlements(s2) = {}
                      /\ SubSeq(s2.pending, 1, Len(pending)) = pending

\* C24: whatever frames the gateway sends, at most one business request is
\* sent per process invocation and at most one completion wait is registered.
C24_OneBusinessOperationPerRun ==
    /\ Cardinality(BusinessFrames) <= 1
    /\ Cardinality({t \in timers : t.kind = "wait"}) <= 1
    /\ Cardinality({h \in Handlers : pc[h] \in {"call", "send", "wait", "main"}}) <= 1

\* C25: a response frame with ok=false for an outstanding business call rejects
\* that call with an error carrying the frame's error detail, sends no request
\* frame (neither the same request again nor any other), prints nothing, and
\* the process exits with status 3.
C25_RejectedBusinessCallExitsOp ==
    \A msg \in ResFrames :
        (Open /\ ~msg.ok /\ msg.id # WaitKey /\ Has(pending, msg.id)
              /\ Get(pending, msg.id).method # "connect") =>
            LET e == Get(pending, msg.id)
                s2 == Drain(handleResponse(Cur, msg))
            IN /\ Added(s2, msg.id, e.owner, "rejected", "response")
               /\ \A x \in NewSettlements(s2) : x.text = ErrorMessage(msg.error)
               /\ s2.sent = sent
               /\ s2.stdout = stdout
               /\ s2.exitCode = EXIT.OP

C25_Witness ==
    /\ exitCode = EXIT.OP
    /\ \E x \in settled, i \in BusinessFrames, d \in ErrDetails :
           /\ x.key = sent[i].id /\ x.how = "rejected" /\ x.by = "response"
           /\ x.text = ErrorMessage(d)
           /\ i = Len(sent)

\* ------------------------------------------------ life of a pending call
IssuedIds == 1..msgId
SettlementsOf(id) == {x \in settled : x.key = id}
CallTimersOf(n) == {t \in timers : t.kind = "call" /\ t.n = n}

\* C26: every call issued is in the table at most once; while it is there it is
\* unsettled and its timer is armed; once it has left the table (by its
\* response, its timer, or the closing of the connection) its timer is gone, it
\* has been settled at most once, by one path, and neither a response frame of
\* its id nor the closing of the connection can settle it again.
C26_CallLeavesTableOnce ==
    \A n \in IssuedIds :
        LET id == String(n)
        IN /\ Cardinality({i \in 1..Len(pending) : pending[i].key = id}) <= 1
           /\ Cardinality(SettlementsOf(id)) <= 1
           /\ \A x \in SettlementsOf(id) : x.nth = 1 /\ x.by \in {"response", "timeout", "close"}
           /\ Has(pending, id) => (SettlementsOf(id) = {} /\ Cardinality(CallTimersOf(n)) = 1)
           /\ ~Has(pending, id) => CallTimersOf(n) = {}
           /\ (Running /\ ~Has(pending, id)) => Cardinality(SettlementsOf(id)) = 1
           /\ (Open /\ ~Has(pending, id)) =>
                  /\ \A msg \in ResFrames : msg.id = id => handleResponse(Cur, msg) = Cur
                  /\ \A x \in NewSettlements(onclose([Cur EXCEPT !.wsState = "closed"])) : x.key # id

\* a call answered, another timed out, a third still outstanding
C26_Witness ==
    /\ \E x, y \in settled :
           /\ x.by = "response" /\ y.by = "timeout" /\ x.key # y.key
           /\ x.key # WaitKey
    /\ \E i \in 1..Len(pending) : pending[i].key # WaitKey

\* C27: the request frames left in increasing order of their ids, so no two
\* carry the same id; the table holds at most one entry per id; and the id the
\* next request would take was given to no request before, whether its entry is
\* still in the table or has left it.
C27_RequestIdsStrictlyIncrease ==
    /\ \A i, j \in 1..Len(sent) :
           i < j => \E a, b \in IssuedIds :
                        a < b /\ sent[i].id = String(a) /\ sent[j].id = String(b)
    /\ \A k \in Keys(pending) : Cardinality({i \in 1..Len(pending) : pending[i].key = k}) = 1
    /\ Running =>
           \A h \in Handlers :
               LET s2 == sendReq(Cur, h, "status", NoParams)
                   id == s2.sent[Len(s2.sent)].id
               IN /\ \A i \in 1..Len(sent) : sent[i].id # id
                  /\ ~Has(pending, id)
                  /\ SettlementsOf(id) = {}
                  /\ Has(s2.pending, id)

\* three requests sent, the first of them no longer in the table
C27_Witness ==
    /\ Running
    /\ Len(sent) >= 3
    /\ ~Has(pending, sent[1].id)
    /\ Has(pending, sent[3].id)

\* C29: the timer callback of a call removes and rejects the entry of that call
\* only: the other entries of the table (the completion wait among them) and
\* their timers, the authenticated flag, the transport, the frames sent and the
\* exit status are as before when the callback returns.
C29_CallTimeoutIsLocal ==
    \A t \in timers :
        (Running /\ t.kind = "call") =>
            LET id == String(t.n)
                s2 == sendReqTimeout(Cur, t)
            IN /\ Has(pending, id)
               /\ s2.pending = Delete(pending, id)
               /\ s2.timers = timers \ {t}
               /\ Added(s2, id, t.owner, "rejected", "timeout")
               /\ \A x \in NewSettlements(s2) : x.text = TimeoutMessage
               /\ s2.authenticated = authenticated
               /\ s2.wsState = wsState /\ s2.closeCalled = closeCalled
               /\ s2.connTimer = connTimer
               /\ s2.sent = sent /\ s2.stdout = stdout
               /\ s2.msgId = msgId /\ s2.sendRunId = sendRunId
               /\ s2.file = file
               /\ s2.exitCode = NotExited

\* a call timed out while another entry was in the table, which is still there
C29_Witness ==
    /\ \E x \in settled : x.by = "timeout" /\ x.key # WaitKey /\ ~Has(pending, x.key)
    /\ Len(pending) >= 1
    /\ \A i \in 1..Len(pending) : pending[i].timer \in timers

\* ------------------------------------------------------- handshake order
ConnectFrames == {i \in 1..Len(sent) : sent[i].method = "connect"}

\* no request frame before the first challenge, and every connect request
\* belongs to an invocation a challenge started
ConnectFollowsChallenge ==
    /\ sent # <<>> => \E h \in Handlers : pc[h] # "idle"
    /\ \A i \in 1..Len(sent) : pc[sent[i].owner] # "idle"

\* C28: no request frame is sent before the first challenge, every connect
\* request is sent by an invocation a challenge started, and the handshake
\* moves forward only: no connect request is sent once the session is
\* authenticated, and an authenticated session does not end as an
\* authentication failure.
C28_HandshakeStatesInOrder ==
    /\ ConnectFollowsChallenge
    /\ \A i \in ConnectFrames : ~sent[i].authenticated
    /\ authenticated => exitCode # EXIT.AUTH

\* ------------------------------------------------------ signed payload
\* C30: in every connect request sent, first attempt or retry, the text signed
\* is, in this order: the version tag, device.id of the request, the client id,
\* the client mode, the role, the scopes, device.signedAt of the request, and
\* the token of the request's auth block; it is signed with the private key of
\* the identity whose public key the request carries.
C30_SignedPayloadMatchesRequest ==
    \A i \in ConnectFrames :
        LET p == sent[i].params
            payload == p.device.signature.payload
        IN /\ Len(payload) = 8
           /\ payload[1] = "v1"
           /\ payload[2] = p.device.id
           /\ payload[3] = ClientId
           /\ payload[4] = ClientMode
           /\ payload[5] = p.role
           /\ payload[6] = p.scopes
           /\ payload[7] = ToString(p.device.signedAt)
           /\ payload[8] = p.auth.token
           /\ p.device.signature.key = IDENTITY.privateKeyPem
           /\ p.device.publicKey = IDENTITY.publicKeyPem
           /\ p.device.id = IDENTITY.deviceId

\* a first attempt with the cached token and its retry with the gateway token,
\* signed at different times
C30_Witness ==
    \E i, j \in ConnectFrames :
        /\ i < j
        /\ sent[i].owner = sent[j].owner
        /\ sent[i].params.auth.token = "tok-old"
        /\ sent[j].params.auth.token = TOKEN
        /\ sent[i].params.device.signedAt # sent[j].params.device.signedAt

\* ------------------------------------------------- early lifecycle event
\* the response frames that answer an outstanding chat.send with a run id
SendAnswers ==
    {msg \in ResFrames : /\ msg.ok /\ msg.payload.run # None /\ msg.id # WaitKey
                         /\ Has(pending, msg.id)
                         /\ Get(pending, msg.id).method = "chat.send"}

ConnectTimers == {t \in timers : t.kind = "call" /\ t.method = "connect"}

\* C33: when the deadline of a connect request fires, first attempt or retry,
\* with or without a cached token in use, no request is sent, the token cache
\* is as before, and the process exits with status 2.
C33_ConnectTimeoutIsNotRetried ==
    \A t \in ConnectTimers :
        Running =>
            LET s2 == Drain(sendReqTimeout(Cur, t))
            IN /\ s2.sent = sent
               /\ s2.file = file
               /\ s2.exitCode = EXIT.AUTH
               /\ s2.authenticated = authenticated
               /\ s2.pc[t.owner] = pc[t.owner]
               /\ \A x \in NewSettlements(s2) : x.text = TimeoutMessage

\* the first attempt carried the cached token and timed out: no retry, the
\* cache untouched
C33_Witness ==
    /\ exitCode = EXIT.AUTH
    /\ STORED_DEVICE_TOKEN # None
    /\ Len(sent) = 1
    /\ sent[1].token = STORED_DEVICE_TOKEN
    /\ \E x \in settled : x.key = sent[1].id /\ x.by = "timeout"
    /\ file = file0

\* ------------------------------------------------- the next invocation
\* what the next invocation of the script reads from the cache this one leaves
\* (line 184), and the token its first connect request carries (line 319)
NextStoredDeviceToken == loadStoredDeviceToken(file, IDENTITY.deviceId, ROLE)
NextFirstAttemptToken == IF NextStoredDeviceToken # None THEN NextStoredDeviceToken ELSE TOKEN

\* the settlements of answered retries: second connect requests resolved
RetryAnswers ==
    {x \in settled : /\ x.how = "resolved" /\ x.by = "response"
                     /\ \E i, j \in ConnectFramesOf(x.owner) : i < j /\ sent[j].id = x.key}

\* C34: once an invocation whose retry was answered ok has ended, the next
\* invocation finds in the cache the fresh token the retry answer carried and
\* sends it on its first attempt, or, the answer carrying none, finds the cache
\* empty and sends the gateway token.
C34_RetryHealsCacheForNextInvocation ==
    Exited =>
        \A x \in RetryAnswers :
            IF x.tok # None
            THEN NextStoredDeviceToken = x.tok /\ NextFirstAttemptToken = x.tok
            ELSE NextStoredDeviceToken = None /\ NextFirstAttemptToken = TOKEN

\* ------------------------------------------------- a cache that cannot be written
\* the answers that make the success path call storeDeviceToken
TokenAnswers ==
    {msg \in ResFrames : /\ msg.ok /\ msg.payload.tok # None /\ msg.id # WaitKey
                         /\ Has(pending, msg.id)
                         /\ Get(pending, msg.id).method = "connect"}

\* a connect answer carrying a device token, processed while the cache
\* directory or file cannot be written
ResponseWriteFails ==
    /\ Open
    /\ \E msg \in TokenAnswers :
         Apply(Drain(handleResponse([Cur EXCEPT !.fsFails = TRUE], msg)))

NextFs ==
    \/ Next
    \/ ResponseWriteFails

SpecFs == Init /\ [][NextFs]_vars

\* C35: when the gateway answers a connect request ok with a device token and
\* the write of the token fails, the invocation does not mark the session
\* authenticated, sends no request, leaves the cache as it was, and the process
\* exits with status 2, the connect call itself having been resolved.
C35_FailedTokenWriteIsAuthFailure ==
    Open =>
        \A msg \in TokenAnswers :
            LET e == Get(pending, msg.id)
                s2 == Drain(handleResponse([Cur EXCEPT !.fsFails = TRUE], msg))
            IN /\ Added(s2, msg.id, e.owner, "resolved", "response")
               /\ s2.authenticated = authenticated
               /\ s2.sent = sent
               /\ s2.stdout = stdout
               /\ s2.file = file
               /\ s2.pc[e.owner] = pc[e.owner]
               /\ s2.exitCode = EXIT.AUTH

\* the gateway accepted the only connect request and issued a token; the
\* process ended as an authentication failure with nothing cached
C35_Witness ==
    /\ exitCode = EXIT.AUTH
    /\ ~authenticated
    /\ Len(sent) = 1
    /\ \E x \in settled : x.key = sent[1].id /\ x.how = "resolved" /\ x.tok = "tok-new"
    /\ NextStoredDeviceToken # "tok-new"

\* ------------------------------------------------------ the challenge nonce
\* a state with the recorded nonce blanked
WithoutNonce(s) == [s EXCEPT !.connectNonce = None]

C37_TransportErrorExitsConn ==
    Open =>
        LET s2 == Drain(onerror(Cur))
        IN /\ s2.exitCode = EXIT.CONN
           /\ s2.exitCode # EXIT.OP
           /\ s2.settled = settled
           /\ s2.pending = pending
           /\ s2.timers = timers
           /\ s2.sent = sent
           /\ s2.stdout = stdout
           /\ s2.file = file
           /\ s2.pc = pc

\* the process ended with status 1 after authentication, the completion wait
\* still in the table and unsettled
C37_Witness ==
    /\ exitCode = EXIT.CONN
    /\ authenticated
    /\ wsState = "open"
    /\ Has(pending, WaitKey)
    /\ Get(pending, WaitKey).timer \in timers
    /\ \A x \in settled : x.key # WaitKey

\* ------------------------------------------------- chat.send without a run
\* the ok answers to an outstanding chat.send that carry no run id
RunlessAnswers ==
    {msg \in ResFrames : /\ msg.ok /\ msg.payload.run = None /\ msg.id # WaitKey
                         /\ Has(pending, msg.id)
                         /\ Get(pending, msg.id).method = "chat.send"}
WaitTimers(ts) == {t \in ts : t.kind = "wait"}

\* C38: on an ok answer to chat.send without run id, runSend registers no
\* wait and arms no timer, and a lifecycle event arriving then changes
\* nothing; the payload of the answer is printed as the result in the same
\* turn and the process exits 0, no completion wait having been settled.
C38_SendWithoutRunReturnsAtOnce ==
    Open =>
        \A msg \in RunlessAnswers :
            LET h == Get(pending, msg.id).owner
                s1 == handleResponse(Cur, msg)
                s3 == runSend([s1 EXCEPT !.queue = Tail(@)], h, Head(s1.queue))
                s2 == Drain(s1)
            IN /\ Head(s1.queue) = Job(h, "inner", TRUE, msg.payload)
               /\ WaitsOf(s3.pending) = WaitsOf(pending)
               /\ WaitTimers(s3.timers) = WaitTimers(timers)
               /\ s3.pc[h] = "send"
               /\ \A run \in RunIds, phase \in Phases :
                      onLifecycle(s3, run, phase) = s3
               /\ s2.stdout = Append(stdout, msg.payload)
               /\ s2.exitCode = EXIT.OK
               /\ \A x \in NewSettlements(s2) : x.key # WaitKey

\* send answered without run id: the answer printed, exit 0, no wait ever
C38_Witness ==
    /\ command = "send"
    /\ exitCode = EXIT.OK
    /\ sendRunId = None
    /\ Len(stdout) = 1 /\ stdout[1].kind = "payload" /\ stdout[1].run = None
    /\ \A x \in settled : x.key # WaitKey

\* ------------------------------------------------------------ termination
\* the event loop runs the callback of every timer that stays armed
SpecLive ==
    /\ Init
    /\ [][Next]_vars
    /\ WF_vars(ConnTimeout)
    /\ WF_vars(CallTimeout)
    /\ WF_vars(WaitTimeout)

SomeTimerArmed == connTimer \/ timers # {}

\* C31: while the process runs a timer is armed (the connection deadline, a
\* call deadline or the completion deadline), and, timers that stay armed
\* firing eventually, every run of the process exits, whatever the gateway
\* sends or fails to send.
C31_EveryInvocationExits ==
    /\ [](Running => SomeTimerArmed)
    /\ <>Exited

\* the gateway answered chat.send and then stayed silent: the completion
\* deadline ended the run
C31_Witness ==
    /\ Exited
    /\ \E x \in settled : x.key = WaitKey /\ x.by = "timeout"

\* --------------------------------------------------- the identity file alone
\* The identity file over successive loads (line 180 of each invocation), with
\* the file deleted or damaged in between.  generateKeyPairSync never returns a
\* key pair it returned before, and the file system carries out the write.
IdentityInit ==
    /\ identityFile \in {NoIdentityFile, CorruptIdentityFile}
    /\ IDENTITY = NoIdentityFile
    /\ keysGenerated = 0
    /\ command \in Commands
    /\ file = NoFile
    /\ file0 = NoFile
    /\ STORED_DEVICE_TOKEN = None
    /\ msgId = 0
    /\ pending = <<>>
    /\ timers = {}
    /\ connTimer = TRUE
    /\ authenticated = FALSE
    /\ sendRunId = None
    /\ connectNonce = None
    /\ pc = [h \in Handlers |-> "idle"]
    /\ wsState = "open"
    /\ closeCalled = FALSE
    /\ exitCode = NotExited
    /\ sent = <<>>
    /\ stdout = <<>>
    /\ settled = {}

connVars == <<command, STORED_DEVICE_TOKEN, file, file0, msgId, pending, timers, connTimer,
              authenticated, sendRunId, connectNonce, pc, wsState, closeCalled,
              exitCode, sent, stdout, settled>>

IdentityLoad ==
    /\ Intact(identityFile) \/ keysGenerated < MaxKeys
    /\ LET r == loadOrCreateIdentity(identityFile, keysGenerated + 1)
       IN /\ IDENTITY' = r.identity
          /\ identityFile' = r.file
          /\ keysGenerated' = IF r.generated THEN keysGenerated + 1 ELSE keysGenerated
    /\ UNCHANGED connVars

IdentityDelete ==
    /\ identityFile' = NoIdentityFile
    /\ UNCHANGED <<IDENTITY, keysGenerated, connVars>>

IdentityCorrupt ==
    /\ identityFile.kind # "absent"
    /\ identityFile' = CorruptIdentityFile
    /\ UNCHANGED <<IDENTITY, keysGenerated, connVars>>

\* the file lacks a required field
IdentityStrip ==
    /\ identityFile.kind = "record"
    /\ \E field \in IdentityFields : identityFile' = [identityFile EXCEPT ![field] = None]
    /\ UNCHANGED <<IDENTITY, keysGenerated, connVars>>

\* the file has a version the load does not recognise
IdentityVersion ==
    /\ identityFile.kind = "record"
    /\ identityFile' = [identityFile EXCEPT !.version = 2]
    /\ UNCHANGED <<IDENTITY, keysGenerated, connVars>>

IdentityNext ==
    \/ IdentityLoad
    \/ IdentityDelete
    \/ IdentityCorrupt
    \/ IdentityStrip
    \/ IdentityVersion

SpecIdentity == IdentityInit /\ [][IdentityNext]_vars

====
